---- MODULE Spec2Model ----
(***************************************************************************)
(* Model of the POST /api/analyze route handler                            *)
(* (src/src/app/api/analyze/route.ts): request validation, channel         *)
(* identifier extraction, channel resolution, recent-video listing,        *)
(* concurrent transcript fetches, the style call, the script call and the  *)
(* single response of one request.                                         *)
(*                                                                         *)
(* Strings whose content the code inspects are sequences of tokens:        *)
(*  - a URL is a sequence of path tokens, an absolute one starts with the  *)
(*    token Origin ("https://host");                                       *)
(*  - an error message is a sequence of text pieces, where the pieces      *)
(*    "quota" and "API key" are the only ones holding those substrings;    *)
(*  - a model output text is a sequence of JSON tokens;                    *)
(*  - a transcript / script text is run-length encoded: a sequence of      *)
(*    runs [ch, n], ch = "w" (non-whitespace) or " " (whitespace).         *)
(***************************************************************************)
EXTENDS Integers, Sequences, FiniteSets, TLC

VARIABLES
    pc,            \* position of the handler
    body,          \* the decoded request body (or InvalidJson / NoBody)
    identifier,    \* result of extractChannelIdentifier
    channelId,     \* result of identifyChannelId
    channelTitle,  \* title used downstream
    videos,        \* filtered video list
    tasks,         \* per-video transcript task: Pending or [outcome, chunk]
    transcripts,   \* result of fetchTranscripts
    styleText,     \* output_text of the style call
    parsedStyle,   \* parsed style object
    guidelineList, \* writingGuidelines.slice(0, 6)
    thrown,        \* the value caught by the handler's catch clause
    response,      \* the response returned by the handler
    calls          \* outbound calls issued so far, with what each returned

vars == <<pc, body, identifier, channelId, channelTitle, videos, tasks,
          transcripts, styleText, parsedStyle, guidelineList, thrown,
          response, calls>>

\* ------------------------------------------------------------------ bounds
MaxUrlLen == 4
MaxItems == 2
MaxTextLen == 4

\* ------------------------------------------------------- program constants
MaxVideos == 8
GuidelineLimit == 6
ModelLimit == 3000
ExcerptLimit == 320
MinTopic == 4
MinKey == 10

\* ------------------------------------------------------------ basic values
Absent == "absent"          \* an undefined / missing string property

Min(a, b) == IF a <= b THEN a ELSE b

RECURSIVE SeqsUpTo(_, _)
SeqsUpTo(S, n) ==
    IF n = 0 THEN {<<>>}
    ELSE LET prev == SeqsUpTo(S, n - 1)
         IN prev \cup {Append(s, x) : s \in {q \in prev : Len(q) = n - 1}, x \in S}

\* Array.prototype.slice(0, n) / String.prototype.slice(0, n) on a sequence
SliceSeq(s, n) == SubSeq(s, 1, Min(n, Len(s)))

\* ---------------------------------------------------------------- messages
Includes(message, piece) == \E i \in DOMAIN message : message[i] = piece

MsgInvalidJson == <<"Invalid JSON payload.">>
MsgInvalidFields == <<"Please fill in every field with valid values.">>
MsgUnsupported == <<"Unsupported YouTube channel link. Try a different URL.">>
MsgNotFound == <<"Unable to find the provided channel.">>
MsgNoTranscripts ==
    <<"Transcripts are unavailable for the recent uploads. Try a different channel.">>
MsgNoOutput == <<"Failed to read analysis output.">>
MsgNoGuidelines == <<"Style payload missing writing guidelines.">>
MsgNoScript == <<"Script generation failed.">>
MsgUnexpected == <<"Unexpected server error.">>
MsgGeneric == <<"Failed to build script style.">>
MsgNoJsonObject == <<"Model response missing JSON object.">>
MsgNotJson == <<"Model response was not valid JSON.">>
MsgMetadata == <<"Failed to fetch channel metadata.">>
MsgVideos == <<"Failed to fetch recent videos. Check your ", "API key", " ", "quota", ".">>
MsgHandle == <<"Unable to resolve channel handle.">>
MsgCustom == <<"Unable to resolve custom channel URL.">>

\* messages raised by the collaborators (fetch, Response.json, the SDKs)
MsgFetchFailed == <<"fetch failed">>
MsgSyntax == <<"Unexpected token < in JSON at position 0">>
MsgUpstreamQuota == <<"The request cannot be completed because you have exceeded your ", "quota", ".">>
MsgUpstreamKey == <<"API key", " not valid. Please pass a valid ", "API key", ".">>
MsgUpstreamOther == <<"Backend Error">>

\* a thrown value: an Error with its message, or a value that is no Error
Err(message) == [raised |-> TRUE, isError |-> TRUE, message |-> message]
NonError == [raised |-> TRUE, isError |-> FALSE, message |-> <<>>]
NothingThrown == [raised |-> FALSE, isError |-> FALSE, message |-> <<>>]

\* ------------------------------------------------------------------- URLs
\* A URL string is a sequence of tokens. Origin stands for "https://host";
\* the other tokens are pieces of the path.
Origin == "https://host"
PathTokens == {"/", "@", "a", "channel", "c", "user", " "}

\* new URL(url): throws unless the string is absolute. The strings drawn
\* here are either relative (no Origin: the parse throws) or Origin followed
\* by nothing or by a path starting with "/".
UrlParses(url) == Len(url) >= 1 /\ url[1] = Origin

RECURSIVE StripTrailingSpace(_)
StripTrailingSpace(s) ==
    IF Len(s) > 0 /\ s[Len(s)] = " " THEN StripTrailingSpace(SubSeq(s, 1, Len(s) - 1))
    ELSE s

\* parsed.pathname: the URL parser strips trailing spaces of the input,
\* percent-encodes the spaces left in the path, and gives "/" for no path.
Pathname(url) ==
    LET stripped == StripTrailingSpace(url)
        rest == SubSeq(stripped, 2, Len(stripped))
    IN IF rest = <<>> THEN <<"/">>
       ELSE [i \in 1..Len(rest) |-> IF rest[i] = " " THEN "%20" ELSE rest[i]]

\* String.prototype.split("/"): the pieces between the separators
RECURSIVE SplitSlash(_, _, _)
SplitSlash(s, i, cur) ==
    IF i > Len(s) THEN <<cur>>
    ELSE IF s[i] = "/" THEN <<cur>> \o SplitSlash(s, i + 1, <<>>)
    ELSE SplitSlash(s, i + 1, Append(cur, s[i]))

RECURSIVE TrimLeft(_)
TrimLeft(s) == IF Len(s) > 0 /\ s[1] = " " THEN TrimLeft(Tail(s)) ELSE s

\* String.prototype.trim()
Trim(s) == StripTrailingSpace(TrimLeft(s))

\* Array.prototype.filter(Boolean) on strings: drops the empty ones
RECURSIVE FilterNonEmpty(_)
FilterNonEmpty(segs) ==
    IF segs = <<>> THEN <<>>
    ELSE IF Head(segs) = <<>> THEN FilterNonEmpty(Tail(segs))
    ELSE <<Head(segs)>> \o FilterNonEmpty(Tail(segs))

NullIdentifier == [type |-> "null", value |-> <<>>]
Identifier(type, value) == [type |-> type, value |-> value]

\* the segments of lines 202 to 205, without the .filter(Boolean)
PathSegmentsUnfiltered(url) ==
    LET pieces == SplitSlash(Pathname(url), 1, <<>>)
    IN [i \in 1..Len(pieces) |-> Trim(pieces[i])]

\* lines 202 to 205: split on "/", trim each piece, drop the empty ones
PathSegments(url) ==
    LET pieces == SplitSlash(Pathname(url), 1, <<>>)
    IN FilterNonEmpty([i \in 1..Len(pieces) |-> Trim(pieces[i])])

\* String.prototype.startsWith("@")
StartsWithAt(s) == Len(s) >= 1 /\ s[1] = "@"

\* parsed.pathname.startsWith("/@")
StartsWithSlashAt(pathname) ==
    Len(pathname) >= 2 /\ pathname[1] = "/" /\ pathname[2] = "@"

\* segments[1] of the code: truthy when there is a second, non-empty segment
HasSecond(segments) == Len(segments) >= 2 /\ segments[2] # <<>>

\* lines 198 to 235
extractChannelIdentifier(url) ==
    IF ~UrlParses(url) THEN NullIdentifier
    ELSE LET segments == PathSegments(url)
         IN IF Len(segments) = 0 THEN NullIdentifier
            ELSE IF segments[1] = <<"@">> THEN Identifier("handle", segments[1])
            ELSE IF StartsWithAt(segments[1]) THEN Identifier("handle", segments[1])
            ELSE IF segments[1] = <<"channel">> /\ HasSecond(segments)
                 THEN Identifier("id", segments[2])
            ELSE IF segments[1] \in {<<"c">>, <<"user">>} /\ HasSecond(segments)
                 THEN Identifier("custom", segments[2])
            ELSE IF StartsWithSlashAt(Pathname(url))
                 THEN Identifier("handle", Tail(Pathname(url)))
            ELSE NullIdentifier

\* ---------------------------------------------------------- request body
NoBody == [kind |-> "none"]
InvalidJson == [kind |-> "invalid"]
\* a JSON body: channelUrl is a URL string, topic and the keys are given by
\* their lengths, videoCount is n (int = TRUE) or n + 1/2 (int = FALSE)
JsonBody(url, topic, ytKey, aiKey, count) ==
    [kind |-> "json", channelUrl |-> url, topic |-> topic,
     youtubeApiKey |-> ytKey, openAiKey |-> aiKey, videoCount |-> count]

\* the schema without the upper limit of videoCount
requestSchemaNoMax(b) ==
    /\ Len(b.channelUrl) >= 1
    /\ b.topic >= MinTopic
    /\ b.youtubeApiKey >= MinKey
    /\ b.openAiKey >= MinKey
    /\ b.videoCount.int
    /\ b.videoCount.n >= 1

\* requestSchema.safeParse(body).success, lines 6 to 12 and 34
requestSchema(b) ==
    /\ Len(b.channelUrl) >= 1
    /\ b.topic >= MinTopic
    /\ b.youtubeApiKey >= MinKey
    /\ b.openAiKey >= MinKey
    /\ b.videoCount.int
    /\ b.videoCount.n >= 1
    /\ b.videoCount.n <= MaxVideos

\* ------------------------------------------------------ upstream results
\* What one fetch of the video-platform API gives: fetch rejects ("reject"),
\* a non-success status with its cause ("status"), a success status whose
\* body is no JSON ("badjson"), or a success status with a JSON body
\* ("json": the items array, if any, and the error payload, if any).
NoError == [present |-> FALSE, message |-> <<>>]
ErrorPayload(message) == [present |-> TRUE, message |-> message]
Item(id, title) == [id |-> id, title |-> title]

Reject == [t |-> "reject", cause |-> "", hasItems |-> FALSE, items |-> <<>>, error |-> NoError]
BadStatus(cause) ==
    [t |-> "status", cause |-> cause, hasItems |-> FALSE, items |-> <<>>, error |-> NoError]
BadJson == [t |-> "badjson", cause |-> "", hasItems |-> FALSE, items |-> <<>>, error |-> NoError]
JsonRes(hasItems, items, error) ==
    [t |-> "json", cause |-> "", hasItems |-> hasItems, items |-> items, error |-> error]
NoRes == [t |-> "n/a", cause |-> "", hasItems |-> FALSE, items |-> <<>>, error |-> NoError]

Causes == {"quota", "auth", "other"}
Failures == {Reject, BadJson} \cup {BadStatus(c) : c \in Causes}

\* a falsy string: undefined, null or ""
Falsy(x) == x \in {Absent, ""}

\* items?.[0]?.id?.channelId ?? null   /   items[0]?.id ?? null
FirstId(res) ==
    IF res.hasItems /\ Len(res.items) > 0 /\ res.items[1].id # Absent
    THEN res.items[1].id ELSE Absent

\* ---------------------------------------------------------------- responses
ErrorResponse(status, message) == [status |-> status, body |-> [error |-> message]]
NoResponse == [status |-> 0, body |-> [none |-> TRUE]]

\* the two substring tests in the other order
StatusFirstMatch(message) ==
    IF Includes(message, "API key") THEN 401
    ELSE IF Includes(message, "quota") THEN 429
    ELSE 500

\* the status chosen by the catch clause, lines 168 to 172
StatusOf(message) ==
    IF Includes(message, "quota") THEN 429
    ELSE IF Includes(message, "API key") THEN 401
    ELSE 500

\* the catch clause of POST, lines 165 to 178
Catch(error) ==
    LET message == IF error.isError THEN error.message ELSE MsgUnexpected
        status == StatusOf(message)
    IN ErrorResponse(status, IF status = 500 THEN MsgGeneric ELSE message)

\* one entry of the log of outbound calls: the call, the maxResults it asked
\* for (0 when it has none) and what it returned
Call(name, maxResults, res) == [call |-> name, maxResults |-> maxResults, res |-> res]
LogCall(name, res) == Append(calls, Call(name, 0, res))

\* a return of the handler with an error response, outside the catch clause
Return(status, message) ==
    /\ response' = ErrorResponse(status, message)
    /\ pc' = "done"
    /\ thrown' = thrown

\* a failure that leaves the handler unanswered
ThrowUncaught(error) ==
    /\ thrown' = error
    /\ response' = response
    /\ pc' = "crashed"

\* a failure that is answered but leaves the handler at the failed call
ThrowAndRetry(error) ==
    /\ thrown' = error
    /\ response' = Catch(error)
    /\ pc' = pc

\* a throw inside the try block: caught, answered
Throw(error) ==
    /\ thrown' = error
    /\ response' = Catch(error)
    /\ pc' = "done"

\* what a failed fetch raises, given the message the call site gives a
\* non-success status
Raised(res, statusMessage) ==
    IF res.t = "reject" THEN Err(MsgFetchFailed)
    ELSE IF res.t = "status" THEN Err(statusMessage)
    ELSE Err(MsgSyntax)

\* ------------------------------------------------------------------ Init
UnknownChannel == [known |-> FALSE, value |-> Absent]
KnownChannel(value) == [known |-> TRUE, value |-> value]

EmptyStyle ==
    [voiceTone |-> Absent, narrativeStructure |-> Absent, recurringDevices |-> Absent,
     pacing |-> Absent, audienceEngagement |-> Absent,
     writingGuidelines |-> [kind |-> "absent", items |-> <<>>]]

Init ==
    /\ pc = "start"
    /\ body = NoBody
    /\ identifier = NullIdentifier
    /\ channelId = UnknownChannel
    /\ channelTitle = Absent
    /\ videos = <<>>
    /\ tasks = <<>>
    /\ transcripts = <<>>
    /\ styleText = <<>>
    /\ parsedStyle = EmptyStyle
    /\ guidelineList = <<>>
    /\ thrown = NothingThrown
    /\ response = NoResponse
    /\ calls = <<>>

\* --------------------------------------------------- POST, lines 22 to 59
\* From the start to the first outbound call or to a 400 response.

\* an id that is verified by a channel search, as a handle is
FirstCallVerifies(id) ==
    IF id.type = "custom" THEN "legacyLookup" ELSE "handleSearch"

FirstCall(id) ==
    IF id.type = "handle" THEN "handleSearch"
    ELSE IF id.type = "custom" THEN "legacyLookup"
    ELSE "metadata"

Receive(b) ==
    /\ pc = "start"
    /\ body' = b
    /\ UNCHANGED <<channelTitle, videos, tasks, transcripts, styleText,
                   parsedStyle, guidelineList, calls>>
    /\ IF b.kind = "invalid"
       THEN Return(400, MsgInvalidJson) /\ UNCHANGED <<identifier, channelId>>
       ELSE IF ~requestSchema(b)
       THEN Return(400, MsgInvalidFields) /\ UNCHANGED <<identifier, channelId>>
       ELSE LET id == extractChannelIdentifier(b.channelUrl)
            IN /\ identifier' = id
               /\ IF id.type = "null"
                  THEN Return(400, MsgUnsupported) /\ UNCHANGED channelId
                  ELSE /\ pc' = FirstCall(id)
                       /\ channelId' = IF id.type = "id" THEN KnownChannel(id.value)
                                       ELSE UnknownChannel
                       /\ UNCHANGED <<thrown, response>>

\* ------------------------------------- identifyChannelId, lines 314 to 383
\* resolveChannelDetails returns null when no channel id was found, and
\* POST answers 404 (lines 253 to 256 and 61 to 66).
Resolved(id) ==
    IF Falsy(id)
    THEN Return(404, MsgNotFound) /\ UNCHANGED channelId
    ELSE /\ channelId' = KnownChannel(id)
         /\ pc' = "metadata"
         /\ UNCHANGED <<thrown, response>>

\* the channel search of a handle identifier, lines 324 to 343
HandleSearch(res) ==
    /\ pc = "handleSearch"
    /\ calls' = LogCall("handleSearch", res)
    /\ UNCHANGED <<body, identifier, channelTitle, videos, tasks, transcripts,
                   styleText, parsedStyle, guidelineList>>
    /\ IF res.t # "json"
       THEN Throw(Raised(res, MsgHandle)) /\ UNCHANGED channelId
       ELSE Resolved(FirstId(res))

\* the test of line 360 without the length test
LegacyDecidesOnArray(res) == res.t = "json" /\ res.hasItems

\* line 360: whether the legacy username lookup ends the resolution, so
\* that no search call is made
LegacyDecides(res) == res.t = "json" /\ res.hasItems /\ Len(res.items) > 0

\* the legacy username lookup of a custom identifier, lines 345 to 362
LegacyLookup(res) ==
    /\ pc = "legacyLookup"
    /\ calls' = LogCall("legacyLookup", res)
    /\ UNCHANGED <<body, identifier, channelTitle, videos, tasks, transcripts,
                   styleText, parsedStyle, guidelineList>>
    /\ IF res.t # "json"
       THEN Throw(Raised(res, MsgCustom)) /\ UNCHANGED channelId
       ELSE IF LegacyDecides(res)
       THEN Resolved(FirstId(res))
       ELSE /\ pc' = "customSearch"
            /\ UNCHANGED <<channelId, thrown, response>>

\* the search fallback of a custom identifier, lines 364 to 380
CustomSearch(res) ==
    /\ pc = "customSearch"
    /\ calls' = LogCall("customSearch", res)
    /\ UNCHANGED <<body, identifier, channelTitle, videos, tasks, transcripts,
                   styleText, parsedStyle, guidelineList>>
    /\ IF res.t # "json"
       THEN Throw(Raised(res, MsgCustom)) /\ UNCHANGED channelId
       ELSE Resolved(FirstId(res))

\* ---------------------------------- resolveChannelDetails, lines 258 to 312
DefaultTitle == "Channel"
DefaultVideoTitle == "Untitled video"

\* channelJson.items?.[0]?.snippet?.title ?? "Channel"
TitleOf(res) ==
    IF res.hasItems /\ Len(res.items) > 0 /\ res.items[1].title # Absent
    THEN res.items[1].title ELSE DefaultTitle

\* the channel metadata call, lines 258 to 270
Metadata(res) ==
    /\ pc = "metadata"
    /\ calls' = LogCall("metadata", res)
    /\ UNCHANGED <<body, identifier, channelId, videos, tasks, transcripts,
                   styleText, parsedStyle, guidelineList>>
    /\ IF res.t # "json"
       THEN Throw(Raised(res, MsgMetadata)) /\ UNCHANGED channelTitle
       ELSE /\ channelTitle' = TitleOf(res)
            /\ pc' = "videos"
            /\ UNCHANGED <<thrown, response>>

\* the .map of lines 296 to 301
MapVideo(item) ==
    [videoId |-> item.id,
     title |-> IF item.title = Absent THEN DefaultVideoTitle ELSE item.title]

RECURSIVE FilterVideos(_)
\* the .filter of lines 302 to 305
FilterVideos(list) ==
    IF list = <<>> THEN <<>>
    ELSE IF Falsy(Head(list).videoId) THEN FilterVideos(Tail(list))
    ELSE <<Head(list)>> \o FilterVideos(Tail(list))

MapAll(items) == [i \in 1..Len(items) |-> MapVideo(items[i])]

\* lines 295 to 305
VideosOf(res) == IF res.hasItems THEN FilterVideos(MapAll(res.items)) ELSE <<>>

NothingFetched == [throws |-> FALSE, error |-> NothingThrown, isNull |-> TRUE, segments |-> <<>>]
PendingTask == [settled |-> FALSE, outcome |-> NothingFetched, chunk |-> [ok |-> FALSE]]

RECURSIVE LogTranscripts(_, _)
LogTranscripts(log, list) ==
    IF list = <<>> THEN log
    ELSE LogTranscripts(Append(log, Call("transcript", 0, NoRes)), Tail(list))

\* the maxResults parameter of the listing request, lines 273 to 276
MaxResults(videoCount) == Min(videoCount, MaxVideos)

LogVideos(res) ==
    Append(calls, Call("videos", MaxResults(body.videoCount.n), res))

\* line 291
VideoError(res) == res.error.present /\ res.error.message # <<>>

\* the recent-video listing call, lines 272 to 311, and the start of every
\* transcript fetch (lines 70 and 398 to 406: videos.map starts them all)
Videos(res) ==
    /\ pc = "videos"
    /\ UNCHANGED <<body, identifier, channelId, channelTitle, transcripts,
                   styleText, parsedStyle, guidelineList>>
    /\ IF res.t # "json"
       THEN /\ Throw(Raised(res, MsgVideos))
            /\ calls' = LogVideos(res)
            /\ UNCHANGED <<videos, tasks>>
       ELSE IF VideoError(res)
       THEN /\ Throw(Err(res.error.message))
            /\ calls' = LogVideos(res)
            /\ UNCHANGED <<videos, tasks>>
       ELSE LET list == VideosOf(res)
            IN /\ videos' = list
               /\ tasks' = [i \in 1..Len(list) |-> PendingTask]
               /\ calls' = LogTranscripts(LogVideos(res), list)
               /\ pc' = "transcripts"
               /\ UNCHANGED <<thrown, response>>

\* ------------------------------------------------------------------ texts
\* A text is run-length encoded: a sequence of runs of n >= 1 characters,
\* all whitespace (ch = " ") or all non-whitespace (ch = "w"); adjacent runs
\* of one kind are merged, so that equal texts are equal sequences.
Run(ch, n) == [ch |-> ch, n |-> n]

RECURSIVE Merge(_)
Merge(text) ==
    IF Len(text) < 2 THEN text
    ELSE IF text[1].ch = text[2].ch
    THEN Merge(<<Run(text[1].ch, text[1].n + text[2].n)>> \o SubSeq(text, 3, Len(text)))
    ELSE <<text[1]>> \o Merge(Tail(text))

RECURSIVE TextLen(_)
TextLen(text) == IF text = <<>> THEN 0 ELSE Head(text).n + TextLen(Tail(text))

\* segments.map(s => s.text).join(" ")
RECURSIVE JoinSegments(_)
JoinSegments(segments) ==
    IF segments = <<>> THEN <<>>
    ELSE IF Len(segments) = 1 THEN Head(segments)
    ELSE Merge(Head(segments) \o <<Run(" ", 1)>> \o JoinSegments(Tail(segments)))

\* .replace(/\s+/g, " ")
CollapseWhitespace(text) ==
    LET merged == Merge(text)
    IN [i \in 1..Len(merged) |-> IF merged[i].ch = " " THEN Run(" ", 1) ELSE merged[i]]

\* String.prototype.trim() on a text
TrimText(text) ==
    LET merged == Merge(text)
        from == IF Len(merged) > 0 /\ merged[1].ch = " " THEN 2 ELSE 1
        to == IF Len(merged) > 0 /\ merged[Len(merged)].ch = " " THEN Len(merged) - 1
              ELSE Len(merged)
    IN SubSeq(merged, from, to)

\* String.prototype.slice(0, n) on a text
RECURSIVE SliceText(_, _)
SliceText(text, n) ==
    IF text = <<>> \/ n <= 0 THEN <<>>
    ELSE IF Head(text).n >= n THEN <<Run(Head(text).ch, n)>>
    ELSE <<Head(text)>> \o SliceText(Tail(text), n - Head(text).n)

\* lines 412 to 416
Combined(segments) == TrimText(CollapseWhitespace(JoinSegments(segments)))

\* ------------------------------------------ fetchTranscripts, lines 385 to 447
\* What YoutubeTranscript.fetchTranscript gives for one video: it throws, or
\* it resolves to null, or to an array of segments (each a text).
Thrown(error) == [throws |-> TRUE, error |-> error, isNull |-> FALSE, segments |-> <<>>]
NullTranscript == [throws |-> FALSE, error |-> NothingThrown, isNull |-> TRUE, segments |-> <<>>]
Segments(segments) ==
    [throws |-> FALSE, error |-> NothingThrown, isNull |-> FALSE, segments |-> segments]

NullChunk == [ok |-> FALSE]

\* a sample whose text for the model is not cut
SampleUncut(video, combined) ==
    [ok |-> TRUE, videoId |-> video.videoId, title |-> video.title,
     transcriptForModel |-> combined,
     snippetExcerpt |-> SliceText(combined, ExcerptLimit)]

\* the sample of lines 422 to 430
Sample(video, combined) ==
    [ok |-> TRUE, videoId |-> video.videoId, title |-> video.title,
     transcriptForModel |-> SliceText(combined, ModelLimit),
     snippetExcerpt |-> SliceText(combined, ExcerptLimit)]

\* the per-video function without the test of lines 418 to 420
ChunkOfKeepsEmpty(video, outcome) ==
    IF outcome.throws THEN NullChunk
    ELSE IF outcome.isNull \/ Len(outcome.segments) = 0 THEN NullChunk
    ELSE Sample(video, Combined(outcome.segments))

\* the body of the per-video async function, lines 400 to 433
ChunkOf(video, outcome) ==
    IF outcome.throws THEN NullChunk
    ELSE IF outcome.isNull \/ Len(outcome.segments) = 0 THEN NullChunk
    ELSE LET combined == Combined(outcome.segments)
         IN IF combined = <<>> THEN NullChunk ELSE Sample(video, combined)

\* one transcript fetch settles; the fetches settle in any order
TranscriptSettle(i, outcome) ==
    /\ pc = "transcripts"
    /\ i \in 1..Len(tasks)
    /\ ~tasks[i].settled
    /\ tasks' = [tasks EXCEPT ![i] =
                    [settled |-> TRUE, outcome |-> outcome, chunk |-> ChunkOf(videos[i], outcome)]]
    /\ UNCHANGED <<pc, body, identifier, channelId, channelTitle, videos, transcripts,
                   styleText, parsedStyle, guidelineList, thrown, response, calls>>

RECURSIVE FilterChunks(_)
\* chunks.filter(Boolean), lines 437 to 446
FilterChunks(chunks) ==
    IF chunks = <<>> THEN <<>>
    ELSE IF Head(chunks).ok THEN <<Head(chunks)>> \o FilterChunks(Tail(chunks))
    ELSE FilterChunks(Tail(chunks))

\* a join that waits for one fetch only
SomeSettled == Len(tasks) = 0 \/ \E i \in 1..Len(tasks) : tasks[i].settled

AllSettled == \A i \in 1..Len(tasks) : tasks[i].settled

\* Promise.all resolves once every fetch has settled: fetchTranscripts
\* returns, and POST answers 422 or goes on to the style call (lines 70 to 79)
TranscriptsJoin ==
    /\ pc = "transcripts"
    /\ AllSettled
    /\ LET result == FilterChunks([i \in 1..Len(tasks) |-> tasks[i].chunk])
       IN /\ transcripts' = result
          /\ IF Len(result) = 0
             THEN Return(422, MsgNoTranscripts)
             ELSE pc' = "style" /\ UNCHANGED <<thrown, response>>
    /\ UNCHANGED <<body, identifier, channelId, channelTitle, videos, tasks,
                   styleText, parsedStyle, guidelineList, calls>>

\* ------------------------------------------------- model output as JSON
\* A model output text is a sequence of tokens: "{", "}", "x" (any text that
\* is no JSON), and member tokens, each standing for one or more
\* "key": value members of an object with the commas they need:
\*   "MF"  the five descriptor fields, each a string
\*   "MP"  voiceTone alone, a string
\*   "MS"  writingGuidelines: a string
\*   "Gn"  writingGuidelines: an array of n entries, 1 to n
GuidelineTokens == {"G0", "G5", "G6", "G7", "G10"}
MemberTokens == {"MF", "MP", "MS"} \cup GuidelineTokens
JsonTokens == {"{", "}", "x"} \cup MemberTokens

ArrayLen(token) ==
    CASE token = "G0" -> 0
      [] token = "G5" -> 5
      [] token = "G6" -> 6
      [] token = "G7" -> 7
      [] token = "G10" -> 10

\* text.indexOf(c), 1-based; 0 when absent
RECURSIVE IndexOf(_, _, _)
IndexOf(text, c, i) ==
    IF i > Len(text) THEN 0
    ELSE IF text[i] = c THEN i
    ELSE IndexOf(text, c, i + 1)

\* text.lastIndexOf(c), 1-based; 0 when absent
RECURSIVE LastIndexOf(_, _, _)
LastIndexOf(text, c, i) ==
    IF i < 1 THEN 0
    ELSE IF text[i] = c THEN i
    ELSE LastIndexOf(text, c, i - 1)

\* whether JSON.parse accepts the slice: an object of members
ValidJson(slice) ==
    /\ Len(slice) >= 2
    /\ slice[1] = "{"
    /\ slice[Len(slice)] = "}"
    /\ \A i \in 2..(Len(slice) - 1) : slice[i] \in MemberTokens

\* one member set on an object (a later member of a key replaces an earlier)
SetMember(object, token) ==
    IF token = "MF"
    THEN [object EXCEPT !.voiceTone = "s", !.narrativeStructure = "s",
                        !.recurringDevices = "s", !.pacing = "s",
                        !.audienceEngagement = "s"]
    ELSE IF token = "MP" THEN [object EXCEPT !.voiceTone = "s"]
    ELSE IF token = "MS"
    THEN [object EXCEPT !.writingGuidelines = [kind |-> "string", items |-> <<>>]]
    ELSE [object EXCEPT !.writingGuidelines =
              [kind |-> "array", items |-> [i \in 1..ArrayLen(token) |-> i]]]

RECURSIVE JsonParse(_, _)
\* JSON.parse of a valid slice, from its second token on
JsonParse(members, object) ==
    IF members = <<>> \/ Head(members) = "}" THEN object
    ELSE JsonParse(Tail(members), SetMember(object, Head(members)))

Parsed(value) == [ok |-> TRUE, error |-> NothingThrown, value |-> value]
ParseError(message) == [ok |-> FALSE, error |-> Err(message), value |-> EmptyStyle]

\* parseJsonObject, lines 181 to 196
parseJsonObject(text) ==
    LET start == IndexOf(text, "{", 1)
        end == LastIndexOf(text, "}", Len(text))
    IN IF start = 0 \/ end = 0 \/ end <= start
       THEN ParseError(MsgNoJsonObject)
       ELSE LET slice == SubSeq(text, start, end)
            IN IF ValidJson(slice) THEN Parsed(JsonParse(Tail(slice), EmptyStyle))
               ELSE ParseError(MsgNotJson)

\* --------------------------------------------- generative calls, results
\* What openai.responses.create gives: it throws, or it resolves with an
\* output_text (<<>> for an empty or missing one).
AiThrows(error) == [throws |-> TRUE, error |-> error, text |-> <<>>]
AiText(text) == [throws |-> FALSE, error |-> NothingThrown, text |-> text]

MsgAiQuota == <<"You exceeded your current ", "quota", ", please check your plan.">>
MsgAiKey == <<"Incorrect ", "API key", " provided.">>
MsgAiOther == <<"The server had an error while processing your request.">>

\* the guideline list without the slice
GuidelinesUncut(items) == items

\* writingGuidelines.slice(0, 6), line 123
Guidelines(items) == SliceSeq(items, GuidelineLimit)

\* the style call and what follows it up to the script call, lines 88 to 123
StyleCall(out) ==
    /\ pc = "style"
    /\ calls' = LogCall("style", NoRes)
    /\ UNCHANGED <<body, identifier, channelId, channelTitle, videos, tasks, transcripts>>
    /\ IF out.throws
       THEN Throw(out.error) /\ UNCHANGED <<styleText, parsedStyle, guidelineList>>
       ELSE /\ styleText' = out.text
            /\ IF out.text = <<>>
               THEN Throw(Err(MsgNoOutput)) /\ UNCHANGED <<parsedStyle, guidelineList>>
               ELSE LET parsed == parseJsonObject(out.text)
                    IN IF ~parsed.ok
                       THEN Throw(parsed.error) /\ UNCHANGED <<parsedStyle, guidelineList>>
                       ELSE /\ parsedStyle' = parsed.value
                            /\ IF parsed.value.writingGuidelines.kind # "array"
                               THEN Throw(Err(MsgNoGuidelines)) /\ UNCHANGED guidelineList
                               ELSE /\ guidelineList' = Guidelines(parsed.value.writingGuidelines.items)
                                    /\ pc' = "script"
                                    /\ UNCHANGED <<thrown, response>>

\* ----------------------------------------------------------- the payload
Excerpts(samples) ==
    [i \in 1..Len(samples) |->
        [videoId |-> samples[i].videoId, title |-> samples[i].title,
         excerpt |-> samples[i].snippetExcerpt]]

\* the 200 response, lines 148 to 164
Payload(scriptText) ==
    [status |-> 200,
     body |-> [channelTitle |-> channelTitle,
               styleSummary |-> [voiceTone |-> parsedStyle.voiceTone,
                                 narrativeStructure |-> parsedStyle.narrativeStructure,
                                 recurringDevices |-> parsedStyle.recurringDevices,
                                 pacing |-> parsedStyle.pacing,
                                 audienceEngagement |-> parsedStyle.audienceEngagement],
               writingGuidelines |-> guidelineList,
               generatedScript |-> scriptText,
               sampledTranscripts |-> Excerpts(transcripts)]]

\* the script call and the response, lines 125 to 164
ScriptCall(out) ==
    /\ pc = "script"
    /\ calls' = LogCall("script", NoRes)
    /\ UNCHANGED <<body, identifier, channelId, channelTitle, videos, tasks, transcripts,
                   styleText, parsedStyle, guidelineList>>
    /\ IF out.throws
       THEN Throw(out.error)
       ELSE LET scriptText == TrimText(out.text)
            IN IF scriptText = <<>>
               THEN Throw(Err(MsgNoScript))
               ELSE /\ response' = Payload(scriptText)
                    /\ pc' = "done"
                    /\ UNCHANGED thrown

\* ------------------------------------------------------------------ inputs
Count(n) == [int |-> TRUE, n |-> n]
Fraction(n) == [int |-> FALSE, n |-> n]

ValidBody(url, count) == JsonBody(url, MinTopic, MinKey, MinKey, Count(count))

HandleUrl == <<Origin, "/", "@", "a">>
IdUrl == <<Origin, "/", "channel", "/", "a">>
CustomUrl == <<Origin, "/", "c", "/", "a">>

SampleUrls ==
    {<<>>, <<"/", "@", "a">>, <<Origin>>, <<Origin, "/", "a">>, <<Origin, "/", "user">>,
     HandleUrl, IdUrl, CustomUrl}

SampleCounts == {Count(0), Count(1), Count(MaxVideos), Count(MaxVideos + 1), Fraction(2)}

Bodies ==
    {InvalidJson} \cup
    {JsonBody(u, t, k1, k2, c) :
        u \in SampleUrls, t \in {MinTopic - 1, MinTopic},
        k1 \in {MinKey - 1, MinKey}, k2 \in {MinKey - 1, MinKey}, c \in SampleCounts}

\* every URL string of at most MaxUrlLen path tokens, relative or absolute
AllUrls ==
    LET paths == SeqsUpTo(PathTokens, MaxUrlLen)
    IN paths \cup {<<Origin>> \o q : q \in {r \in paths : r = <<>> \/ r[1] = "/"}}

SearchResults ==
    Failures \cup
    {JsonRes(FALSE, <<>>, NoError), JsonRes(TRUE, <<>>, NoError),
     JsonRes(TRUE, <<Item("UCsearch", Absent)>>, NoError),
     JsonRes(TRUE, <<Item(Absent, Absent)>>, NoError)}

LegacyResults ==
    Failures \cup
    {JsonRes(FALSE, <<>>, NoError), JsonRes(TRUE, <<>>, NoError),
     JsonRes(TRUE, <<Item("UClegacy", Absent)>>, NoError),
     JsonRes(TRUE, <<Item(Absent, Absent)>>, NoError)}

MetadataResults ==
    Failures \cup
    {JsonRes(FALSE, <<>>, NoError), JsonRes(TRUE, <<>>, NoError),
     JsonRes(TRUE, <<Item(Absent, "T")>>, NoError),
     JsonRes(TRUE, <<Item(Absent, Absent)>>, NoError),
     JsonRes(FALSE, <<>>, ErrorPayload(MsgUpstreamQuota))}

VideoItems == {Item("va", "A"), Item("vb", Absent), Item("", "C"), Item(Absent, "D")}

VideoResults ==
    Failures \cup
    {JsonRes(FALSE, <<>>, e) :
        e \in {NoError, ErrorPayload(<<>>), ErrorPayload(MsgUpstreamQuota),
               ErrorPayload(MsgUpstreamKey), ErrorPayload(MsgUpstreamOther)}} \cup
    {JsonRes(TRUE, items, NoError) : items \in SeqsUpTo(VideoItems, MaxItems)} \cup
    {JsonRes(TRUE, <<Item("va", "A")>>, ErrorPayload(MsgUpstreamQuota))}

\* an error of the transcript service whose message holds both substrings
MsgTranscript == <<"Too many requests: the ", "API key", " is over its ", "quota", ".">>

ShortText == <<<<Run("w", 5)>>, <<Run(" ", 2), Run("w", 4), Run(" ", 1)>>>>
LongText == <<<<Run("w", 2000), Run(" ", 3)>>, <<Run("w", 1500)>>>>

TranscriptOutcomes ==
    {Thrown(Err(MsgTranscript)), NullTranscript,
     Segments(<<>>), Segments(<<<<Run(" ", 3)>>, <<>>>>), Segments(ShortText),
     Segments(LongText)}

AiFailures == {AiThrows(Err(MsgAiQuota)), AiThrows(Err(MsgAiKey)), AiThrows(Err(MsgAiOther)),
               AiThrows(NonError)}

SampleTexts ==
    {<<>>, <<"x">>, <<"}", "x", "{">>, <<"{", "x", "}">>,
     <<"x", "{", "MF", "G7", "}", "x">>, <<"{", "MP", "G5", "}">>,
     <<"{", "MF", "MS", "}">>, <<"{", "MF", "}">>}

StyleOutcomes == AiFailures \cup {AiText(t) : t \in SampleTexts}

\* every model output text of at most MaxTextLen tokens
AllTexts == SeqsUpTo(JsonTokens, MaxTextLen)

ScriptOutcomes ==
    {AiThrows(Err(MsgAiQuota)), AiThrows(NonError),
     AiText(<<>>), AiText(<<Run(" ", 2)>>), AiText(<<Run(" ", 1), Run("w", 9), Run(" ", 1)>>)}

\* ---------------------------------------------------------- specifications
ReceiveRequest == pc = "start" /\ \E b \in Bodies : Receive(b)
ResolveHandle == \E res \in SearchResults : HandleSearch(res)
ResolveLegacy == \E res \in LegacyResults : LegacyLookup(res)
ResolveCustom == \E res \in SearchResults : CustomSearch(res)
FetchMetadata == \E res \in MetadataResults : Metadata(res)
ListVideos == pc = "videos" /\ \E res \in VideoResults : Videos(res)
SettleTranscript == \E i \in 1..Len(tasks), o \in TranscriptOutcomes : TranscriptSettle(i, o)
AnalyzeStyle == pc = "style" /\ \E out \in StyleOutcomes : StyleCall(out)
WriteScript == pc = "script" /\ \E out \in ScriptOutcomes : ScriptCall(out)

Next ==
    \/ ReceiveRequest
    \/ ResolveHandle
    \/ ResolveLegacy
    \/ ResolveCustom
    \/ FetchMetadata
    \/ ListVideos
    \/ SettleTranscript
    \/ TranscriptsJoin
    \/ AnalyzeStyle
    \/ WriteScript

\* one request, from its arrival to its response
Spec == Init /\ [][Next]_vars

\* the same request when the handler runs on and every outbound call
\* settles: each await of POST resumes once its promise is settled, so a
\* step that can be taken is eventually taken
SpecLive == Init /\ [][Next]_vars /\ WF_vars(Next)

\* extractChannelIdentifier on every URL string of the bounded set
ReceiveAnyUrl == pc = "start" /\ \E u \in AllUrls : Receive(ValidBody(u, 1))

SpecExtract == Init /\ [][ReceiveAnyUrl]_vars

\* The style and script stages on every model output text of the bounded
\* set, from a state of the request in which one transcript was sampled.
StyleVideo == [videoId |-> "va", title |-> "A"]
StyleTask ==
    [settled |-> TRUE, outcome |-> Segments(ShortText),
     chunk |-> ChunkOf(StyleVideo, Segments(ShortText))]

InitStyle ==
    /\ pc = "style"
    /\ body = ValidBody(IdUrl, 1)
    /\ identifier = Identifier("id", <<"a">>)
    /\ channelId = KnownChannel(<<"a">>)
    /\ channelTitle = "T"
    /\ videos = <<StyleVideo>>
    /\ tasks = <<StyleTask>>
    /\ transcripts = <<StyleTask.chunk>>
    /\ styleText = <<>>
    /\ parsedStyle = EmptyStyle
    /\ guidelineList = <<>>
    /\ thrown = NothingThrown
    /\ response = NoResponse
    /\ calls = <<Call("metadata", 0, JsonRes(TRUE, <<Item(Absent, "T")>>, NoError)),
                 Call("videos", 1, JsonRes(TRUE, <<Item("va", "A")>>, NoError)),
                 Call("transcript", 0, NoRes)>>

StyleAnyText == pc = "style" /\ \E t \in AllTexts : StyleCall(AiText(t))

NextStyle ==
    \/ StyleAnyText
    \/ WriteScript

SpecStyle == InitStyle /\ [][NextStyle]_vars

\* =================================================================== claims
Done == pc = "done"
Issued(name) == \E i \in DOMAIN calls : calls[i].call = name

\* C1: every Error raised inside the try block is answered 429 when its
\* message contains "quota", otherwise 401 when it contains "API key",
\* otherwise 500; the 429 and 401 responses carry the raised message itself
\* as their error text. A thrown value that is no Error is answered 500.
C1_CatchStatusByMessage ==
    thrown.raised =>
        /\ Done
        /\ thrown.isError /\ Includes(thrown.message, "quota") =>
              response = [status |-> 429, body |-> [error |-> thrown.message]]
        /\ thrown.isError /\ ~Includes(thrown.message, "quota")
                          /\ Includes(thrown.message, "API key") =>
              response = [status |-> 401, body |-> [error |-> thrown.message]]
        /\ thrown.isError /\ ~Includes(thrown.message, "quota")
                          /\ ~Includes(thrown.message, "API key") =>
              response.status = 500
        /\ ~thrown.isError => response.status = 500

\* an upstream message holding both substrings was raised and answered 429
C1_Witness ==
    /\ thrown.raised
    /\ thrown.isError
    /\ Includes(thrown.message, "quota")
    /\ Includes(thrown.message, "API key")
    /\ response.status = 429
    /\ response.body.error = thrown.message

PlatformCalls == {"handleSearch", "legacyLookup", "customSearch", "metadata", "videos"}

\* C2: a non-success HTTP status of a video-platform call ends the request
\* with 500, with 429 only when the failure is quota-related and with 401
\* only when it is auth-related.
C2_StatusFollowsCause ==
    \A i \in DOMAIN calls :
        calls[i].call \in PlatformCalls /\ calls[i].res.t = "status" =>
            /\ Done
            /\ response.status \in {500, 429, 401}
            /\ response.status = 429 => calls[i].res.cause = "quota"
            /\ response.status = 401 => calls[i].res.cause = "auth"

\* C3: the video list produced by resolveChannelDetails has at most
\* min(requestedCount, 8) entries, each with a non-empty videoId, whatever
\* body the listing call returned.
C3_VideoListBounded ==
    Issued("videos") =>
        /\ Len(videos) <= Min(body.videoCount.n, 8)
        /\ \A i \in DOMAIN videos : videos[i].videoId \notin {Absent, ""}

\* a fetch that yields no sample: it raised, gave no transcript or an empty
\* one, or gave segments holding nothing but whitespace
OnlyWhitespace(segments) ==
    \A i \in DOMAIN segments : \A j \in DOMAIN segments[i] : segments[i][j].ch = " "
YieldsNothing(outcome) ==
    \/ outcome.throws
    \/ outcome.isNull
    \/ Len(outcome.segments) = 0
    \/ OnlyWhitespace(outcome.segments)

Survivors == {i \in DOMAIN tasks : ~YieldsNothing(tasks[i].outcome)}
\* the position among the input videos of the k-th surviving one
KthSurvivor(k) ==
    CHOOSE i \in Survivors : Cardinality({j \in Survivors : j <= i}) = k

FetchReturned == pc \in {"style", "script", "done"}

\* C4: once every fetch has settled, in whatever order, fetchTranscripts
\* returns one sample per video whose fetch yielded text, in the order of
\* the input videos, and raises nothing; when no fetch yielded text the
\* request ends with 422, whatever the messages of the fetch errors.
C4_SamplesAreSurvivorsInOrder ==
    /\ pc = "transcripts" => ~thrown.raised
    /\ FetchReturned =>
         /\ Len(transcripts) = Len(tasks) - Cardinality(DOMAIN tasks \ Survivors)
         /\ \A k \in DOMAIN transcripts :
               /\ transcripts[k].videoId = videos[KthSurvivor(k)].videoId
               /\ transcripts[k].title = videos[KthSurvivor(k)].title
               /\ transcripts[k] = tasks[KthSurvivor(k)].chunk
         /\ Len(tasks) > 0 /\ Survivors = {} =>
               /\ transcripts = <<>>
               /\ ~thrown.raised
               /\ response = ErrorResponse(422, MsgNoTranscripts)

\* two videos, the second kept and the first dropped on an error whose
\* message contains "quota"
C4_Witness ==
    /\ pc = "style"
    /\ Len(tasks) = 2
    /\ tasks[1].outcome.throws
    /\ Includes(tasks[1].outcome.error.message, "quota")
    /\ Len(transcripts) = 1
    /\ transcripts[1].videoId = videos[2].videoId
    /\ videos[1].videoId # videos[2].videoId

LegacyIndex == CHOOSE i \in DOMAIN calls : calls[i].call = "legacyLookup"
SearchIndex == CHOOSE i \in DOMAIN calls : calls[i].call = "customSearch"
ZeroItems(res) == res.t = "json" /\ (~res.hasItems \/ Len(res.items) = 0)
SearchIssuedOrNext == Issued("customSearch") \/ pc = "customSearch"

\* C5: for a Custom identifier the search fallback is made if and only if
\* the legacy lookup succeeded with zero items; a non-empty item list gives
\* the first item's id with no search; zero items give the search's first
\* channel id, or null (404) when the search is empty; a failed legacy
\* lookup raises at once with no search.
C5_SearchIffLegacyEmpty ==
    /\ SearchIssuedOrNext => identifier.type = "custom" /\ Issued("legacyLookup")
    /\ Issued("legacyLookup") =>
         LET legacy == calls[LegacyIndex].res
         IN /\ SearchIssuedOrNext <=> ZeroItems(legacy)
            /\ legacy.t = "json" /\ ~ZeroItems(legacy) =>
                  IF legacy.items[1].id = Absent
                  THEN ~channelId.known /\ response = ErrorResponse(404, MsgNotFound)
                  ELSE channelId = KnownChannel(legacy.items[1].id)
            /\ legacy.t # "json" =>
                  /\ thrown.raised
                  /\ Done
                  /\ Len(calls) = 1
            /\ Issued("customSearch") /\ calls[SearchIndex].res.t = "json" =>
                  LET search == calls[SearchIndex].res
                  IN IF ZeroItems(search) \/ search.items[1].id = Absent
                     THEN ~channelId.known /\ response = ErrorResponse(404, MsgNotFound)
                     ELSE channelId = KnownChannel(search.items[1].id)

\* the legacy lookup gave an empty item list and the search gave the id
C5_Witness ==
    /\ Len(calls) >= 2
    /\ calls[1].call = "legacyLookup"
    /\ calls[1].res.t = "json"
    /\ calls[1].res.hasItems
    /\ calls[1].res.items = <<>>
    /\ calls[2].call = "customSearch"
    /\ channelId = KnownChannel("UCsearch")

SetMin(S) == CHOOSE x \in S : \A y \in S : x <= y
SetMax(S) == CHOOSE x \in S : \A y \in S : y <= x

Opens(text) == {i \in DOMAIN text : text[i] = "{"}
Closes(text) == {i \in DOMAIN text : text[i] = "}"}
\* a "{" followed later by a "}"
HasObject(text) == \E i \in Opens(text), j \in Closes(text) : i < j
\* the substring from the first "{" to the last "}"
Located(text) == SubSeq(text, SetMin(Opens(text)), SetMax(Closes(text)))
\* the positions of the writingGuidelines members of an object text
GuidelineMembers(slice) ==
    {i \in 2..(Len(slice) - 1) : slice[i] \in {"MS"} \cup GuidelineTokens}
\* the writingGuidelines member that counts: the last one
LastGuideline(slice) == slice[SetMax(GuidelineMembers(slice))]

Rejected(text) ==
    \/ ~HasObject(text)
    \/ ~ValidJson(Located(text))
    \/ GuidelineMembers(Located(text)) = {}
    \/ LastGuideline(Located(text)) \notin GuidelineTokens

\* C6: when the output text of the style call holds no "{" followed later
\* by a "}", or the text from its first "{" to its last "}" is no valid
\* JSON, or the parsed writingGuidelines is absent or no array, the pipeline
\* fails; otherwise the guideline list used by the script call and returned
\* to the caller is the first min(6, length) entries of writingGuidelines,
\* in order.
C6_GuidelinesParsedAndCut ==
    Issued("style") =>
        IF styleText = <<>> \/ Rejected(styleText)
        THEN /\ Done
             /\ thrown.raised
             /\ response.status \notin {0, 200}
             /\ guidelineList = <<>>
             /\ ~Issued("script")
        ELSE LET n == ArrayLen(LastGuideline(Located(styleText)))
             IN /\ guidelineList = [i \in 1..Min(6, n) |-> i]
                /\ pc = "script" \/ Issued("script")
                /\ response.status = 200 => response.body.writingGuidelines = guidelineList

\* a writingGuidelines array of 10 entries was returned cut to its first 6
C6_Witness ==
    /\ \E i \in DOMAIN styleText : styleText[i] = "G10"
    /\ response.status = 200
    /\ response.body.writingGuidelines = <<1, 2, 3, 4, 5, 6>>

\* the first position from `from` on that holds no "/", 0 when there is none
SegStart(path, from) ==
    LET S == {i \in from..Len(path) : path[i] # "/"}
    IN IF S = {} THEN 0 ELSE SetMin(S)
\* the last position of the segment that starts at `start`
SegEnd(path, start) ==
    SetMax({j \in start..Len(path) : \A k \in start..j : path[k] # "/"})
FirstSegment(path) ==
    LET s1 == SegStart(path, 1)
    IN IF s1 = 0 THEN <<>> ELSE SubSeq(path, s1, SegEnd(path, s1))
SecondSegment(path) ==
    LET s1 == SegStart(path, 1)
        s2 == IF s1 = 0 THEN 0 ELSE SegStart(path, SegEnd(path, s1) + 1)
    IN IF s2 = 0 THEN <<>> ELSE SubSeq(path, s2, SegEnd(path, s2))

Classified(url) ==
    IF ~UrlParses(url) THEN NullIdentifier
    ELSE LET first == FirstSegment(Pathname(url))
             second == SecondSegment(Pathname(url))
         IN IF first # <<>> /\ first[1] = "@" THEN Identifier("handle", first)
            ELSE IF first = <<"channel">> /\ second # <<>> THEN Identifier("id", second)
            ELSE IF first \in {<<"c">>, <<"user">>} /\ second # <<>>
                 THEN Identifier("custom", second)
            ELSE NullIdentifier

\* C7: extractChannelIdentifier classifies a parseable URL by its first
\* non-empty path segment: one starting with "@" gives Handle with that
\* segment; "channel" with a second segment gives Id with the second
\* segment; "c" or "user" with a second segment gives Custom with the second
\* segment; every other string, and every string that does not parse as a
\* URL, gives absent (and the request is answered 400).
C7_ExtractClassifies ==
    body.kind = "json" =>
        /\ identifier = Classified(body.channelUrl)
        /\ extractChannelIdentifier(body.channelUrl) = Classified(body.channelUrl)
        /\ Classified(body.channelUrl) = NullIdentifier => response.status = 400

\* /user/a gave Custom with the second segment
C7_Witness ==
    /\ body.kind = "json"
    /\ body.channelUrl = <<Origin, "/", "user", "/", "a">>
    /\ identifier = Identifier("custom", <<"a">>)
    /\ pc = "legacyLookup"

Descriptors ==
    {"voiceTone", "narrativeStructure", "recurringDevices", "pacing", "audienceEngagement"}

\* C8: a 200 response is given only after every stage succeeded and is
\* complete: the channel title, the five style descriptors as present
\* strings, at most 6 writingGuidelines, a non-empty trimmed generatedScript
\* and at least one sampled transcript; every other response carries only an
\* error field.
C8_NoPartialResult ==
    /\ response.status = 200 =>
          /\ Issued("metadata") /\ Issued("videos") /\ Issued("transcript")
          /\ Issued("style") /\ Issued("script")
          /\ response.body.channelTitle # Absent
          /\ \A f \in Descriptors : response.body.styleSummary[f] # Absent
          /\ Len(response.body.writingGuidelines) <= 6
          /\ response.body.generatedScript # <<>>
          /\ TrimText(response.body.generatedScript) = response.body.generatedScript
          /\ Len(response.body.sampledTranscripts) >= 1
    /\ response.status \notin {0, 200} => DOMAIN response.body = {"error"}

EmbeddedError(res) == res.t = "json" /\ res.error.present /\ res.error.message # <<>>

\* C9: for the channel-metadata call and for the recent-video listing call,
\* a success status whose body carries an error payload with a message
\* aborts the pipeline with an error of that message.
C9_EmbeddedErrorRaised ==
    \A i \in DOMAIN calls :
        calls[i].call \in {"metadata", "videos"} /\ EmbeddedError(calls[i].res) =>
            /\ Done
            /\ thrown.raised
            /\ thrown.message = calls[i].res.error.message
            /\ i = Len(calls)

SchemaFails(b) ==
    \/ Len(b.channelUrl) = 0
    \/ b.topic < 4
    \/ b.youtubeApiKey < 10
    \/ b.openAiKey < 10
    \/ ~b.videoCount.int
    \/ b.videoCount.n < 1
    \/ b.videoCount.n > 8

ClientError ==
    \/ body.kind = "invalid"
    \/ body.kind = "json" /\ SchemaFails(body)
    \/ body.kind = "json" /\ Classified(body.channelUrl) = NullIdentifier

\* C10: a body that is no valid JSON, a body failing the schema (empty
\* channelUrl, topic shorter than 4, a key shorter than 10, videoCount no
\* integer in 1..8) and a channelUrl giving no identifier are each answered
\* 400, and no outbound call is issued for them.
C10_ClientErrorsAre400 ==
    ClientError =>
        /\ Done
        /\ response.status = 400
        /\ DOMAIN response.body = {"error"}
        /\ calls = <<>>
        /\ ~thrown.raised

\* a videoCount above 8 was answered 400 with no call issued
C10_Witness ==
    /\ body.kind = "json"
    /\ body.videoCount = Count(9)
    /\ body.topic >= 4 /\ body.youtubeApiKey >= 10 /\ body.openAiKey >= 10
    /\ Classified(body.channelUrl) # NullIdentifier
    /\ response.status = 400
    /\ calls = <<>>

\* the place of a call in the order of the stages
Rank(name) ==
    CASE name \in {"handleSearch", "legacyLookup"} -> 1
      [] name = "customSearch" -> 2
      [] name = "metadata" -> 3
      [] name = "videos" -> 4
      [] name = "transcript" -> 5
      [] name = "style" -> 6
      [] name = "script" -> 7

EveryFetchSettled == \A i \in DOMAIN tasks : tasks[i].settled
StyleIssuedOrNext == pc = "style" \/ Issued("style")
ScriptIssuedOrNext == pc = "script" \/ Issued("script")

\* C11: the calls of one request are issued in the order channel-id
\* resolution, channel metadata, video listing, transcript fetches, style
\* call, script call; a transcript fetch starts only after the listing
\* returned its body; the style call is issued only when every transcript
\* fetch has settled and a sample exists; the script call only when the
\* style output was parsed and its writingGuidelines is an array; a request
\* answered 404 or 422 issued no generative-model call.
C11_StagesInOrder ==
    /\ \A i, j \in DOMAIN calls :
          i < j => \/ Rank(calls[i].call) < Rank(calls[j].call)
                   \/ calls[i].call = "transcript" /\ calls[j].call = "transcript"
    /\ Issued("metadata") \/ pc = "metadata" => channelId.known
    /\ Issued("videos") => Issued("metadata")
    /\ \A j \in DOMAIN calls :
          calls[j].call = "transcript" =>
             \E i \in 1..(j - 1) : calls[i].call = "videos" /\ calls[i].res.t = "json"
    /\ Len(tasks) > 0 => Issued("transcript")
    /\ StyleIssuedOrNext =>
          /\ Issued("videos")
          /\ EveryFetchSettled
          /\ Len(transcripts) >= 1
    /\ ScriptIssuedOrNext =>
          /\ Issued("style")
          /\ styleText # <<>>
          /\ parsedStyle.writingGuidelines.kind = "array"
    /\ response.status \in {404, 422} => ~Issued("style") /\ ~Issued("script")
    /\ response.status = 200 => Issued("script")

\* a request answered 200 after two transcript fetches, one of which raised
C11_Witness ==
    /\ response.status = 200
    /\ Len(tasks) = 2
    /\ tasks[1].outcome.throws
    /\ Len(calls) = 6
    /\ calls[5].call = "style"
    /\ calls[6].call = "script"

CountCalls(name) == Cardinality({i \in DOMAIN calls : calls[i].call = name})
FailedCall(entry) ==
    \/ entry.res.t \in {"reject", "status", "badjson"}
    \/ entry.call = "videos" /\ EmbeddedError(entry.res)

AtMostOnce ==
    /\ \A name \in {"handleSearch", "legacyLookup", "customSearch", "metadata",
                    "videos", "style", "script"} : CountCalls(name) <= 1
    /\ CountCalls("handleSearch") + CountCalls("customSearch") <= 1
    /\ CountCalls("transcript") <= Len(videos)
    /\ Len(tasks) = CountCalls("transcript")

FailureEndsRequest ==
    /\ \A i \in DOMAIN calls : FailedCall(calls[i]) => i = Len(calls) /\ Done /\ thrown.raised
    /\ thrown.raised => Done /\ response.status \in {429, 401, 500}

\* C12: no call site runs twice in one request (at most one legacy lookup,
\* one channel search, one metadata call, one listing call, one transcript
\* fetch per listed video, one style call, one script call), and after a
\* failed resolution, metadata, listing or generative-model call no further
\* outbound call is issued.
C12_NoRetries ==
    /\ [](AtMostOnce /\ FailureEndsRequest)
    /\ [][thrown.raised \/ Done => calls' = calls]_vars

\* the metadata call failed after a channel search, and was the last call
C12_Witness ==
    /\ Done
    /\ thrown.raised
    /\ Len(calls) = 2
    /\ calls[1].call = "handleSearch"
    /\ calls[2].call = "metadata"
    /\ calls[2].res.t = "status"

\* the runs of every segment, in order, with one space between two segments
RECURSIVE Flatten(_)
Flatten(segments) ==
    IF segments = <<>> THEN <<>>
    ELSE IF Len(segments) = 1 THEN Head(segments)
    ELSE Head(segments) \o <<Run(" ", 1)>> \o Flatten(Tail(segments))

\* the lengths of the words of a sequence of runs: its maximal stretches of
\* non-whitespace characters (cur: the length of the word being read)
RECURSIVE WordLengths(_, _)
WordLengths(runs, cur) ==
    LET word == IF cur > 0 THEN <<cur>> ELSE <<>>
    IN IF runs = <<>> THEN word
       ELSE IF Head(runs).ch = "w" THEN WordLengths(Tail(runs), cur + Head(runs).n)
       ELSE word \o WordLengths(Tail(runs), 0)

\* the words, one space between two of them
RECURSIVE FromWords(_)
FromWords(words) ==
    IF words = <<>> THEN <<>>
    ELSE IF Len(words) = 1 THEN <<Run("w", words[1])>>
    ELSE <<Run("w", words[1]), Run(" ", 1)>> \o FromWords(Tail(words))

\* the whitespace-normalized, trimmed concatenation of the segment texts
Normalized(segments) == FromWords(WordLengths(Flatten(segments), 0))

\* p is a prefix of t (both with merged runs)
IsPrefix(p, t) ==
    \/ p = <<>>
    \/ /\ Len(p) <= Len(t)
       /\ \A i \in 1..(Len(p) - 1) : p[i] = t[i]
       /\ p[Len(p)].ch = t[Len(p)].ch
       /\ p[Len(p)].n <= t[Len(p)].n

\* p is the first n characters of t
IsFirstChars(p, n, t) == IsPrefix(p, t) /\ TextLen(p) = Min(n, TextLen(t))

\* what C13 says of the texts of a returned sample made from the fetch of
\* video i
SampleIsCut(sample, i) ==
    LET text == Normalized(tasks[i].outcome.segments)
    IN /\ sample.transcriptForModel # <<>>
       /\ TextLen(sample.transcriptForModel) <= 3000
       /\ IsFirstChars(sample.transcriptForModel, 3000, text)
       /\ sample.snippetExcerpt # <<>>
       /\ TextLen(sample.snippetExcerpt) <= 320
       /\ IsPrefix(sample.snippetExcerpt, sample.transcriptForModel)
       /\ IsFirstChars(sample.snippetExcerpt, 320, text)

\* the sample carries the videoId and title of input video i
SampleNamesVideo(sample, i) ==
    /\ sample.videoId = videos[i].videoId
    /\ sample.title = videos[i].title

\* C13 as stated: every returned sample has a non-empty transcriptForModel of
\* at most 3000 characters, the first 3000 of the normalized text, and a
\* non-empty snippetExcerpt of at most 320 characters that is a prefix of
\* it, and carries the videoId and title of the input video at the same
\* position as the sample.
C13_SampleAtSamePosition ==
    FetchReturned =>
        \A k \in DOMAIN transcripts :
            /\ SampleIsCut(transcripts[k], KthSurvivor(k))
            /\ SampleNamesVideo(transcripts[k], k)

\* C13, amended: as stated, but the videoId and title of the k-th returned
\* sample are those of the input video it was fetched for, the k-th input
\* video whose fetch yielded text; that is the video at the same position
\* only when no earlier video was dropped.
C13_SampleOfItsVideo ==
    FetchReturned =>
        \A k \in DOMAIN transcripts :
            /\ SampleIsCut(transcripts[k], KthSurvivor(k))
            /\ SampleNamesVideo(transcripts[k], KthSurvivor(k))

\* a sample of a transcript longer than 3000 characters, returned first
\* although its video is the second of the input
C13_Witness ==
    /\ FetchReturned
    /\ Len(videos) = 2
    /\ Len(transcripts) = 1
    /\ KthSurvivor(1) = 2
    /\ TextLen(Normalized(tasks[2].outcome.segments)) > 3000
    /\ TextLen(transcripts[1].transcriptForModel) = 3000
    /\ TextLen(transcripts[1].snippetExcerpt) = 320
    /\ videos[1].videoId # videos[2].videoId

\* the calls that look a channel id up
Lookups == {"handleSearch", "legacyLookup", "customSearch"}

\* the entry of the metadata call in the log, when it returned a body
\* without a channel
MetadataFoundNothing ==
    \E i \in DOMAIN calls : calls[i].call = "metadata" /\ ZeroItems(calls[i].res)

\* the last lookup of the log returned no channel id
LookupFoundNothing ==
    /\ calls # <<>>
    /\ calls[Len(calls)].call \in Lookups
    /\ calls[Len(calls)].res.t = "json"
    /\ Falsy(FirstId(calls[Len(calls)].res))

\* C14: a request with an Id identifier never ends with 404: no lookup is
\* made, the id is the channel id, the metadata call is the first call; when
\* that call returns no channel the title is "Channel", the video listing
\* follows and the request ends with 422, 200, 429, 401 or 500; a 404 is the
\* response only to a Handle or Custom identifier whose lookup returned no
\* channel id.
C14_IdNeverNotFound ==
    /\ (pc # "start" /\ identifier.type = "id") =>
          /\ response.status # 404
          /\ channelId = KnownChannel(identifier.value)
          /\ \A i \in DOMAIN calls : calls[i].call \notin Lookups
          /\ calls # <<>> => calls[1].call = "metadata"
          /\ MetadataFoundNothing =>
                /\ channelTitle = "Channel"
                /\ pc = "videos" \/ Issued("videos")
                /\ Done => response.status \in {422, 200, 429, 401, 500}
    /\ response.status = 404 =>
          /\ Done
          /\ identifier.type \in {"handle", "custom"}
          /\ ~channelId.known
          /\ LookupFoundNothing
          /\ ~Issued("metadata")

\* an id that matches no channel: the listing was asked for under the
\* default title and the request ended with 422
C14_Witness ==
    /\ Done
    /\ identifier.type = "id"
    /\ MetadataFoundNothing
    /\ channelTitle = "Channel"
    /\ Issued("videos")
    /\ response.status = 422

\* the statuses POST answers with
Statuses == {200, 400, 401, 404, 422, 429, 500}

\* the request has its response: one of the statuses, with the request done
Answered == Done /\ response.status \in Statuses

\* C15: when every outbound call settles, every request eventually ends
\* with a response whose status is 200, 400, 401, 404, 422, 429 or 500;
\* whatever a stage raises (an undecodable upstream body and a thrown value
\* that is not an Error included) is answered by the catch clause in the same
\* step, a response exists exactly when the request is done, and once there
\* is a response nothing changes it.
C15_ExactlyOneResponse ==
    /\ <>Answered
    /\ [](response = NoResponse <=> ~Done)
    /\ [](Done => response.status \in Statuses)
    /\ [](thrown.raised => Done /\ response = Catch(thrown))
    /\ [][response # NoResponse => response' = response]_vars

\* a thrown value that is not an Error, answered with 500
C15_Witness ==
    /\ Done
    /\ thrown.raised
    /\ ~thrown.isError
    /\ response.status = 500

====
